---- MODULE Spec2Model ----
(***************************************************************************)
(* Model of holidays.py: the Holidays class (holiday set of a year in a    *)
(* German state, Lichtenberg's easter algorithm, working-day count).       *)
(***************************************************************************)
EXTENDS Integers, Sequences, FiniteSets

VARIABLES year, arg, pc, state, holidays, ret

vars == <<year, arg, pc, state, holidays, ret>>

\* ---- bounds of the model ----
MinYear == 1900
MaxYear == 2100
EasterMinYear == 1583
EasterMaxYear == 2999
MaxArgLen == 2

\* ---- datetime.date, as the standard library computes it ----

\* the value standing for "date(...) raised ValueError"
NoDate == [year |-> 0, month |-> 0, day |-> 0]

IsLeap(y) == y % 4 = 0 /\ (y % 100 # 0 \/ y % 400 = 0)

DaysInMonth(y, m) ==
    IF m = 2 THEN (IF IsLeap(y) THEN 29 ELSE 28)
    ELSE IF m \in {4, 6, 9, 11} THEN 30 ELSE 31

RECURSIVE DaysBeforeMonth(_, _)
DaysBeforeMonth(y, m) ==
    IF m <= 1 THEN 0 ELSE DaysBeforeMonth(y, m - 1) + DaysInMonth(y, m - 1)

DaysBeforeYear(y) ==
    (y - 1) * 365 + (y - 1) \div 4 - (y - 1) \div 100 + (y - 1) \div 400

date(y, m, d) ==
    IF m \in 1..12 /\ d >= 1 /\ d <= DaysInMonth(y, m)
    THEN [year |-> y, month |-> m, day |-> d]
    ELSE NoDate

toordinal(dt) == DaysBeforeYear(dt.year) + DaysBeforeMonth(dt.year, dt.month) + dt.day

fromordinal(n, hint) ==
    LET y == CHOOSE c \in (hint - 1)..(hint + 1) :
                 DaysBeforeYear(c) < n /\ n <= DaysBeforeYear(c + 1)
        doy == n - DaysBeforeYear(y)
        m == CHOOSE c \in 1..12 :
                 DaysBeforeMonth(y, c) < doy /\ doy <= DaysBeforeMonth(y, c) + DaysInMonth(y, c)
    IN [year |-> y, month |-> m, day |-> doy - DaysBeforeMonth(y, m)]

\* date + timedelta(days=n)
timedelta(dt, n) == fromordinal(toordinal(dt) + n, dt.year)

isoweekday(dt) ==
    LET r == toordinal(dt) % 7 IN IF r = 0 THEN 7 ELSE r

\* ---- Holidays.get_easter_sunday ----

\* variant: the lunar correction divided by 24
EasterM_div24(k) == 15 + (3 * k + 3) \div 4 - (8 * k + 13) \div 24

EasterM(k) == 15 + (3 * k + 3) \div 4 - (8 * k + 13) \div 25

EasterS(k) == 2 - (3 * k + 3) \div 4

EasterD(a, m) == (19 * a + m) % 30

EasterR(d, a) == (d + a \div 11) \div 29

EasterOg(d, r) == 21 + d - r

\* variant: the solar correction s left out
EasterSz_noS(x, s) == 7 - ((x + x \div 4) % 7)

EasterSz(x, s) == 7 - ((x + x \div 4 + s) % 7)

EasterOe(og, sz) == 7 - ((og - sz) % 7)

EasterOs(x) ==
    LET k == x \div 100
        m == EasterM(k)
        s == EasterS(k)
        a == x % 19
        d == EasterD(a, m)
        r == EasterR(d, a)
        og == EasterOg(d, r)
        sz == EasterSz(x, s)
        oe == EasterOe(og, sz)
    IN og + oe

\* variant: March 31 taken for an April date
EasterDate_ge31(y, o) == IF o >= 31 THEN date(y, 4, o - 31) ELSE date(y, 3, o)

EasterDate(y, o) == IF o > 31 THEN date(y, 4, o - 31) ELSE date(y, 3, o)

get_easter_sunday(y) == EasterDate(y, EasterOs(y))

\* ---- str, as far as the state argument needs it ----

LowerLetters == <<"a","b","c","d","e","f","g","h","i","j","k","l","m",
                  "n","o","p","q","r","s","t","u","v","w","x","y","z">>
UpperLetters == <<"A","B","C","D","E","F","G","H","I","J","K","L","M",
                  "N","O","P","Q","R","S","T","U","V","W","X","Y","Z">>

UpperChar(c) ==
    IF \E i \in 1..26 : LowerLetters[i] = c
    THEN UpperLetters[CHOOSE i \in 1..26 : LowerLetters[i] = c]
    ELSE c

LowerChar(c) ==
    IF \E i \in 1..26 : UpperLetters[i] = c
    THEN LowerLetters[CHOOSE i \in 1..26 : UpperLetters[i] = c]
    ELSE c

\* str.upper()
upper(s) == [i \in 1..Len(s) |-> UpperChar(s[i])]

\* the state argument: None, or a string (a sequence of characters)
None == [none |-> TRUE, s |-> <<>>]
Str(s) == [none |-> FALSE, s |-> s]

\* truth value of an optional string: None and "" are false
Truthy(a) == ~a.none /\ Len(a.s) > 0

\* the tuple of known state codes
StateCodes ==
    << <<"B","W">>, <<"B","Y">>, <<"B","E">>, <<"B","B">>,
       <<"H","B">>, <<"H","H">>, <<"H","E">>, <<"M","V">>,
       <<"N","I">>, <<"N","W">>, <<"R","P">>, <<"S","L">>,
       <<"S","N">>, <<"S","T">>, <<"S","H">>, <<"T","H">> >>

InTuple(x, t) == \E i \in 1..Len(t) : t[i] = x

\* variant: the state kept as written
NormState_noUpper(a) == IF Truthy(a) THEN Str(a.s) ELSE None

\* self.state = state.upper() if state else None
NormState(a) == IF Truthy(a) THEN Str(upper(a.s)) ELSE None

\* the guard of "raise UnknownStateCodeException"
UnknownState(st) == Truthy(st) /\ ~InTuple(st.s, StateCodes)

\* ---- the dict self._holidays: (name, date) pairs in insertion order ----

HasKey(d, k) == \E i \in 1..Len(d) : d[i].name = k

\* d[k] = v
DictSet(d, k, v) ==
    IF HasKey(d, k)
    THEN [i \in 1..Len(d) |-> IF d[i].name = k THEN [name |-> k, date |-> v] ELSE d[i]]
    ELSE Append(d, [name |-> k, date |-> v])

\* d[k], for a key that is present
DictGet(d, k) == d[CHOOSE i \in 1..Len(d) : d[i].name = k].date

\* ---- Holidays.__init__ ----

EpiphanyStates == << <<"B","Y">>, <<"B","W">>, <<"S","T">> >>
WomensDayStates == << <<"B","E">> >>
EasterSundayStates == << <<"B","B">> >>
WhitSundayStates == << <<"B","B">> >>
AssumptionStates == << <<"B","Y">>, <<"S","L">> >>
ReformationStates == << <<"B","B">>, <<"H","B">>, <<"H","H">>, <<"M","V">>, <<"N","I">>,
                        <<"S","N">>, <<"S","T">>, <<"S","H">>, <<"T","H">> >>
AllSaintsStates == << <<"B","W">>, <<"B","Y">>, <<"N","W">>, <<"R","P">>, <<"S","L">> >>
RepentanceStates == << <<"S","N">> >>
CorpusChristiStates == << <<"B","W">>, <<"B","Y">>, <<"H","E">>, <<"N","W">>, <<"R","P">>, <<"S","L">> >>

CommonHolidays(y, easter) ==
    LET h1 == DictSet(<<>>, "new year", date(y, 1, 1))
        h2 == DictSet(h1, "labor day", date(y, 5, 1))
        h3 == DictSet(h2, "german unification day", date(y, 10, 3))
        h4 == DictSet(h3, "first christmas holiday", date(y, 12, 25))
        h5 == DictSet(h4, "second christmas holiday", date(y, 12, 26))
        h6 == DictSet(h5, "good friday", timedelta(easter, -2))
        h7 == DictSet(h6, "easter monday", timedelta(easter, 1))
        h8 == DictSet(h7, "ascention", timedelta(easter, 39))
    IN DictSet(h8, "whit monday", timedelta(easter, 50))

\* variant: weekday() numbering (Monday = 0) used for the comparison
IsWednesday_weekday(dt) == isoweekday(dt) - 1 = 3

IsWednesday(dt) == isoweekday(dt) = 3

\* for day in range(16, 23): if ...isoweekday() == 3: self._holidays[...] = ...
RECURSIVE RepentanceLoop(_, _, _, _)
RepentanceLoop(d, y, day, stop) ==
    IF day >= stop THEN d
    ELSE RepentanceLoop(IF IsWednesday(date(y, 11, day))
                        THEN DictSet(d, "repentance and prayer", date(y, 11, day))
                        ELSE d,
                        y, day + 1, stop)

StateHolidays(h0, st, y, easter) ==
    LET h1 == IF InTuple(st.s, EpiphanyStates) THEN DictSet(h0, "epiphany", date(y, 1, 6)) ELSE h0
        h2 == IF InTuple(st.s, WomensDayStates) THEN DictSet(h1, "womens day", date(y, 3, 8)) ELSE h1
        h3 == IF InTuple(st.s, EasterSundayStates) THEN DictSet(h2, "easter sunday", easter) ELSE h2
        h4 == IF InTuple(st.s, WhitSundayStates)
              THEN DictSet(h3, "whit_sunday", timedelta(easter, 49)) ELSE h3
        h5 == IF InTuple(st.s, AssumptionStates) THEN DictSet(h4, "assumption", date(y, 8, 15)) ELSE h4
        h6 == IF InTuple(st.s, ReformationStates)
              THEN DictSet(h5, "reformation day", date(y, 10, 31)) ELSE h5
        h7 == IF InTuple(st.s, AllSaintsStates) THEN DictSet(h6, "all saints", date(y, 11, 1)) ELSE h6
        h8 == IF InTuple(st.s, RepentanceStates) THEN RepentanceLoop(h7, y, 16, 23) ELSE h7
    IN IF InTuple(st.s, CorpusChristiStates)
       THEN DictSet(h8, "corpus christi", timedelta(easter, 60)) ELSE h8

\* the body of __init__ after the state check
BuildHolidays(st, y, easter) ==
    IF Truthy(st)
    THEN StateHolidays(CommonHolidays(y, easter), st, y, easter)
    ELSE CommonHolidays(y, easter)

\* ---- accessors ----

\* __getitem__: looks up the literal key 'item'
getitem(d, item) ==
    IF HasKey(d, "item")
    THEN [exc |-> "none", date |-> DictGet(d, "item")]
    ELSE [exc |-> "KeyError", date |-> NoDate]

contains(d, item) == HasKey(d, item)

items(d) == {<<d[i].name, d[i].date>> : i \in 1..Len(d)}

keys(d) == [i \in 1..Len(d) |-> d[i].name]

get_all(d) == [i \in 1..Len(d) |-> d[i].date]

\* ---- Holidays.get_working_days ----

InitialWorkdays == 261

IsWeekend(dt) == isoweekday(dt) >= 6

\* date(self.year, 2, 29) does not raise ValueError
HasFeb29(y) == date(y, 2, 29) # NoDate

FirstDayAdjust(y, w) == IF IsWeekend(date(y, 1, 1)) THEN w - 1 ELSE w

\* variant: a leap year always adds a day
LeapAdjust_always(y, w) == IF HasFeb29(y) THEN w + 1 ELSE w

LeapAdjust(y, w) ==
    IF HasFeb29(y) /\ isoweekday(date(y, 12, 31)) < 6 THEN w + 1 ELSE w

\* the value of workdays before the loop over the holidays
BaseWorkdays(y) == LeapAdjust(y, FirstDayAdjust(y, InitialWorkdays))

RECURSIVE SubtractHolidays(_, _)
SubtractHolidays(w, hs) ==
    IF hs = <<>> THEN w
    ELSE SubtractHolidays(IF isoweekday(Head(hs)) < 6 THEN w - 1 ELSE w, Tail(hs))

get_working_days(y, d) == SubtractHolidays(BaseWorkdays(y), get_all(d))

\* ---- inputs ----

Years == MinYear..MaxYear

CaseVariants(c) == {<<a, b>> : a \in {c[1], LowerChar(c[1])}, b \in {c[2], LowerChar(c[2])}}

ArgChars == {"x", "z", "B"}

RECURSIVE StringsOfLen(_)
StringsOfLen(n) ==
    IF n = 0 THEN {<<>>}
    ELSE {Append(s, c) : s \in StringsOfLen(n - 1), c \in ArgChars}

ArgStrings ==
    UNION {CaseVariants(StateCodes[i]) : i \in 1..Len(StateCodes)}
    \cup UNION {StringsOfLen(n) : n \in 0..MaxArgLen}
    \cup {<<"B","W","X">>, <<"b","w"," ">>}

Args == {None} \cup {Str(s) : s \in ArgStrings}

HolidayNames ==
    {"new year", "labor day", "german unification day", "first christmas holiday",
     "second christmas holiday", "good friday", "easter monday", "ascention",
     "whit monday", "epiphany", "womens day", "easter sunday", "whit_sunday",
     "assumption", "reformation day", "all saints", "repentance and prayer",
     "corpus christi"}

QueryNames ==
    {"new year", "good friday", "epiphany", "whit_sunday", "repentance and prayer", "item"}

\* ---- the state machine ----

NoRet == [op |-> "none", key |-> "", date |-> NoDate, num |-> 0, exc |-> "none", os |-> 0, base |-> 0]

Init ==
    /\ year \in Years
    /\ arg \in Args
    /\ pc = "new"
    /\ state = None
    /\ holidays = <<>>
    /\ ret = NoRet

\* Holidays(year, arg)
Construct ==
    /\ pc = "new"
    /\ LET easter == get_easter_sunday(year)
           st == NormState(arg)
       IN IF easter = NoDate
          THEN /\ pc' = "failed"
               /\ ret' = [NoRet EXCEPT !.op = "init", !.exc = "ValueError"]
               /\ UNCHANGED <<state, holidays>>
          ELSE IF UnknownState(st)
          THEN /\ pc' = "failed"
               /\ ret' = [NoRet EXCEPT !.op = "init", !.exc = "UnknownStateCodeException"]
               /\ UNCHANGED <<state, holidays>>
          ELSE /\ pc' = "constructed"
               /\ state' = st
               /\ holidays' = BuildHolidays(st, year, easter)
               /\ ret' = [NoRet EXCEPT !.op = "init"]
    /\ UNCHANGED <<year, arg>>

\* Holidays.get_easter_sunday(year), a function of the class
GetEasterSunday ==
    /\ LET o == EasterOs(year)
           dt == EasterDate(year, o)
       IN ret' = [NoRet EXCEPT !.op = "get_easter_sunday", !.os = o, !.date = dt,
                               !.exc = IF dt = NoDate THEN "ValueError" ELSE "none"]
    /\ UNCHANGED <<year, arg, pc, state, holidays>>

\* h.get_working_days()
GetWorkingDays ==
    /\ pc = "constructed"
    /\ ret' = [NoRet EXCEPT !.op = "get_working_days",
                            !.base = BaseWorkdays(year),
                            !.num = get_working_days(year, holidays)]
    /\ UNCHANGED <<year, arg, pc, state, holidays>>

\* h[n]
GetItem(n) ==
    /\ pc = "constructed"
    /\ LET r == getitem(holidays, n)
       IN ret' = [NoRet EXCEPT !.op = "getitem", !.key = n, !.exc = r.exc, !.date = r.date]
    /\ UNCHANGED <<year, arg, pc, state, holidays>>

Next ==
    \/ Construct
    \/ GetEasterSunday
    \/ GetWorkingDays
    \/ \E n \in QueryNames : GetItem(n)

Spec == Init /\ [][Next]_vars

\* get_easter_sunday alone, over a wider range of years
InitEaster ==
    /\ year \in EasterMinYear..EasterMaxYear
    /\ arg = None
    /\ pc = "new"
    /\ state = None
    /\ holidays = <<>>
    /\ ret = NoRet

NextEaster == GetEasterSunday

SpecEaster == InitEaster /\ [][NextEaster]_vars

\* ---- properties ----

\* the weekday (Monday = 1 .. Sunday = 7) of the day with ordinal n
OrdinalWeekday(n) == ((n - 1) % 7) + 1

\* the ordinals of the days of year y
YearOrdinals(y) == (DaysBeforeYear(y) + 1)..DaysBeforeYear(y + 1)

\* the number of Monday-to-Friday dates of year y
WeekdaysInYear(y) == Cardinality({n \in YearOrdinals(y) : OrdinalWeekday(n) <= 5})

HolidayOrdinals(d) == {toordinal(d[i].date) : i \in 1..Len(d)}

SN == <<"S","N">>

\* C1: for every year of the range, the date get_easter_sunday returns is a
\* Sunday (ISO weekday 7).
C1_EasterIsSunday ==
    ret.op = "get_easter_sunday" =>
        /\ ret.exc = "none"
        /\ ret.date.year = year
        /\ OrdinalWeekday(toordinal(ret.date)) = 7

C1_Witness ==
    /\ ret.op = "get_easter_sunday"
    /\ year = 2038
    /\ ret.date = [year |-> 2038, month |-> 4, day |-> 25]

\* C2: get_working_days returns the number of Monday-to-Friday dates of the
\* year that are not the date of any holiday of the set; a date shared by two
\* holiday names lowers the count once.
C2_WorkingDaysCountsDates ==
    ret.op = "get_working_days" =>
        ret.num = Cardinality({n \in YearOrdinals(year) :
                                  OrdinalWeekday(n) <= 5 /\ n \notin HolidayOrdinals(holidays)})

\* C3: every non-None state string that does not upper-case to one of the 16
\* codes makes the constructor raise UnknownStateCodeException, and no holiday
\* set is produced.
C3_UnknownStateRaises ==
    (pc # "new" /\ ~arg.none /\ ~InTuple(upper(arg.s), StateCodes)) =>
        /\ pc = "failed"
        /\ holidays = <<>>
        /\ (ret.op = "init" => ret.exc = "UnknownStateCodeException")

\* the inclusion table: holiday name, states, date
C4_Common(y, e) ==
    {<<"new year", date(y, 1, 1)>>, <<"labor day", date(y, 5, 1)>>,
     <<"german unification day", date(y, 10, 3)>>,
     <<"first christmas holiday", date(y, 12, 25)>>,
     <<"second christmas holiday", date(y, 12, 26)>>,
     <<"good friday", timedelta(e, -2)>>, <<"easter monday", timedelta(e, 1)>>,
     <<"ascention", timedelta(e, 39)>>, <<"whit monday", timedelta(e, 50)>>}

C4_Table(y, e) ==
    {[name |-> "epiphany", states |-> {"BW", "BY", "ST"}, date |-> date(y, 1, 6)],
     [name |-> "womens day", states |-> {"BE"}, date |-> date(y, 3, 8)],
     [name |-> "easter sunday", states |-> {"BB"}, date |-> e],
     [name |-> "whit_sunday", states |-> {"BB"}, date |-> timedelta(e, 49)],
     [name |-> "assumption", states |-> {"BY", "SL"}, date |-> date(y, 8, 15)],
     [name |-> "reformation day",
      states |-> {"BB", "HB", "HH", "MV", "NI", "SN", "ST", "SH", "TH"},
      date |-> date(y, 10, 31)],
     [name |-> "all saints", states |-> {"BW", "BY", "NW", "RP", "SL"}, date |-> date(y, 11, 1)],
     [name |-> "repentance and prayer", states |-> {"SN"},
      date |-> date(y, 11, CHOOSE d \in 16..22 : OrdinalWeekday(toordinal(date(y, 11, d))) = 3)],
     [name |-> "corpus christi", states |-> {"BW", "BY", "HE", "NW", "RP", "SL"},
      date |-> timedelta(e, 60)]}

C4_CodeNames ==
    <<"BW", "BY", "BE", "BB", "HB", "HH", "HE", "MV",
      "NI", "NW", "RP", "SL", "SN", "ST", "SH", "TH">>

C4_Expected(y, i) ==
    C4_Common(y, get_easter_sunday(y)) \cup
    {<<r.name, r.date>> : r \in {t \in C4_Table(y, get_easter_sunday(y)) : C4_CodeNames[i] \in t.states}}

\* C4: for every year and every state code in any letter case, the holiday set
\* is exactly the nine common holidays plus the state-conditional holidays the
\* inclusion table lists for the code, each with its date.
C4_StateHolidaySet ==
    \A i \in 1..Len(StateCodes) :
        (pc # "new" /\ ~arg.none /\ arg.s \in CaseVariants(StateCodes[i])) =>
            /\ pc = "constructed"
            /\ items(holidays) = C4_Expected(year, i)
            /\ Len(holidays) = Cardinality(C4_Expected(year, i))

C4_Witness ==
    /\ pc = "constructed"
    /\ arg = Str(<<"b","y">>)
    /\ HasKey(holidays, "epiphany")
    /\ HasKey(holidays, "corpus christi")
    /\ Len(holidays) = 13

\* C5: without a state argument the holiday set holds the nine common holidays
\* and every state-specific holiday.
C5_NoStateCalculatesAll ==
    (pc = "constructed" /\ arg.none) =>
        \A n \in HolidayNames : HasKey(holidays, n)

\* C6: get_easter_sunday returns April 23 for 2000, March 31 for 2024 and
\* April 20 for 2025.
C6_ReferenceDates ==
    ret.op = "get_easter_sunday" =>
        /\ (year = 2000 => ret.date = [year |-> 2000, month |-> 4, day |-> 23])
        /\ (year = 2024 => ret.date = [year |-> 2024, month |-> 3, day |-> 31])
        /\ (year = 2025 => ret.date = [year |-> 2025, month |-> 4, day |-> 20])

C6_Witness ==
    /\ ret.op = "get_easter_sunday"
    /\ year = 2024
    /\ ret.os = 31

\* C7: exactly one date of November 16..22 is a Wednesday; for state SN the
\* holiday 'repentance and prayer' is present and is that date; for every other
\* state it is absent and the construction does not fail.
C7_RepentanceAndPrayer ==
    /\ Cardinality({d \in 16..22 : OrdinalWeekday(toordinal(date(year, 11, d))) = 3}) = 1
    /\ (pc # "new" /\ (arg.none \/ InTuple(upper(arg.s), StateCodes))) =>
           /\ pc = "constructed"
           /\ IF state = Str(SN)
              THEN /\ HasKey(holidays, "repentance and prayer")
                   /\ \E d \in 16..22 :
                          /\ DictGet(holidays, "repentance and prayer") = date(year, 11, d)
                          /\ OrdinalWeekday(toordinal(date(year, 11, d))) = 3
              ELSE ~HasKey(holidays, "repentance and prayer")

C7_Witness ==
    /\ pc = "constructed"
    /\ state = Str(SN)
    /\ HasKey(holidays, "repentance and prayer")
    /\ DictGet(holidays, "repentance and prayer").day = 16

\* C8: the value get_working_days holds before it subtracts the holidays equals
\* the number of Monday-to-Friday dates of the year.
C8_BaseIsWeekdayCount ==
    ret.op = "get_working_days" => ret.base = WeekdaysInYear(year)

C8_Witness ==
    /\ ret.op = "get_working_days"
    /\ year = 2000
    /\ HasFeb29(year)
    /\ ret.base = 260

\* C9: for every year, os lies in 22..56 and get_easter_sunday builds a valid
\* date between March 22 and April 25.
C9_EasterTotal ==
    ret.op = "get_easter_sunday" =>
        /\ ret.os >= 22 /\ ret.os <= 56
        /\ ret.exc = "none"
        /\ ret.date # NoDate
        /\ \/ ret.date.month = 3 /\ ret.date.day >= 22 /\ ret.date.day <= 31
           \/ ret.date.month = 4 /\ ret.date.day >= 1 /\ ret.date.day <= 25

C9_Witness ==
    /\ ret.op = "get_easter_sunday"
    /\ ret.os = 56
    /\ ret.date = [year |-> year, month |-> 4, day |-> 25]

\* C10: for every holiday name n with n in h, h[n] returns the date that
\* h.items() pairs with n.
C10_GetItemAgrees ==
    (ret.op = "getitem" /\ contains(holidays, ret.key)) =>
        /\ ret.exc = "none"
        /\ <<ret.key, ret.date>> \in items(holidays)

====
